---------------------------- MODULE Spec2Model ----------------------------
(***************************************************************************)
(* The loss-ratio dashboard: create_data.py (the generator of the four CSV *)
(* tables) and app.py (the load, the three joins, the monthly group-by,    *)
(* the ratio columns and the update_dashboard callback).                   *)
(*                                                                         *)
(* A DataFrame is a sequence of records (rows in order, duplicates kept).  *)
(* Money is an integer number of cents.  A float64 result of a division is *)
(* an exact reduced fraction, or one of NaN, +inf, -inf, which is what     *)
(* numpy yields for a zero denominator.                                    *)
(***************************************************************************)
EXTENDS Integers, Sequences, FiniteSets, TLC

VARIABLES
    cfg,                \* create_data.py: START_DATE, END_DATE, BUSINESS_LINES, REGIONS
    gen_pc,             \* create_data.py: the statement it is at
    gen,                \* create_data.py: its DataFrames
    files,              \* the four CSV files on disk
    app_pc,             \* app.py: the statement it is at
    fact_financials,    \* app.py globals
    dim_date,
    dim_business_line,
    dim_region,
    df,
    df_monthly,
    quicksort_stable,   \* whether this build's argsort(kind='quicksort') keeps ties in order
    request,            \* the callback's last inputs
    response,           \* the callback's last outputs (or the exception it raised)
    ref_request,        \* a caller's remembered earlier request ...
    ref_response        \* ... and the response it got

vars == <<cfg, gen_pc, gen, files, app_pc, fact_financials, dim_date,
          dim_business_line, dim_region, df, df_monthly, quicksort_stable,
          request, response, ref_request, ref_response>>

gen_vars == <<cfg, gen_pc, gen>>
app_frames == <<fact_financials, dim_date, dim_business_line, dim_region, df, df_monthly>>
query_vars == <<request, response>>
ref_vars == <<ref_request, ref_response>>

\* a file that does not exist, and a file holding a table
Absent == [exists |-> FALSE, rows |-> <<>>]
File(rows) == [exists |-> TRUE, rows |-> rows]

\* no request made, no response received
None == [status |-> "None"]

---------------------------------------------------------------------------
(* Bounds of the model *)

MaxFactRows == 2        \* rows of a fact table read from disk
MaxDays == 3            \* days of a configured date range
MaxLines == 2           \* configured business lines
MaxRegions == 2         \* configured regions

---------------------------------------------------------------------------
(* Sequences *)

Range(s) == {s[i] : i \in 1..Len(s)}

RECURSIVE ConcatRange(_, _, _)
ConcatRange(ss, lo, hi) ==
    IF lo > hi THEN <<>>
    ELSE IF lo = hi THEN ss[lo]
    ELSE LET mid == (lo + hi) \div 2
         IN ConcatRange(ss, lo, mid) \o ConcatRange(ss, mid + 1, hi)

Concat(ss) == ConcatRange(ss, 1, Len(ss))

RECURSIVE SumRange(_, _, _, _)
SumRange(rows, col, lo, hi) ==
    IF lo > hi THEN 0
    ELSE IF lo = hi THEN rows[lo][col]
    ELSE LET mid == (lo + hi) \div 2
         IN SumRange(rows, col, lo, mid) + SumRange(rows, col, mid + 1, hi)

\* Series.sum()
ColSum(rows, col) == SumRange(rows, col, 1, Len(rows))

\* every sequence over S of length at most n
SeqsUpTo(S, n) == UNION {[1..k -> S] : k \in 0..n}

---------------------------------------------------------------------------
(* float64 *)

NaN == [kind |-> "nan"]
PosInf == [kind |-> "inf"]
NegInf == [kind |-> "-inf"]

RECURSIVE GCD(_, _)
GCD(a, b) == IF b = 0 THEN a ELSE GCD(b, a % b)

Abs(a) == IF a < 0 THEN -a ELSE a

\* the finite value n/d (d # 0), reduced, with a positive denominator
Num(n, d) ==
    LET g == GCD(Abs(n), Abs(d))
        s == IF d < 0 THEN -1 ELSE 1
    IN [kind |-> "num", n |-> (s * n) \div g, d |-> (s * d) \div g]

Zero == Num(0, 1)

\* a / b on numpy numbers: a zero denominator gives nan or +-inf, never an exception
FDiv(a, b) ==
    IF b # 0 THEN Num(a, b)
    ELSE IF a = 0 THEN NaN
    ELSE IF a > 0 THEN PosInf ELSE NegInf

\* x - y
FSub(x, y) ==
    IF x.kind = "nan" \/ y.kind = "nan" THEN NaN
    ELSE IF x.kind = "num" /\ y.kind = "num" THEN Num(x.n * y.d - y.n * x.d, x.d * y.d)
    ELSE IF x.kind = "num" THEN (IF y.kind = "inf" THEN NegInf ELSE PosInf)
    ELSE IF y.kind = "num" THEN x
    ELSE IF x.kind = y.kind THEN NaN
    ELSE x

\* x > y on finite values
FGreater(x, y) == x.n * y.d > y.n * x.d

---------------------------------------------------------------------------
(* Strings in code-point order, which is how pandas sorts group keys *)

SortedNames ==
    <<"April", "August", "Commercial Auto", "Commercial Property", "December",
      "February", "General Liability", "January", "July", "June", "March", "May",
      "Midwest", "Northeast", "November", "October", "September", "Southeast",
      "West", "Workers Compensation">>

NameRank(s) == CHOOSE i \in 1..Len(SortedNames) : SortedNames[i] = s

---------------------------------------------------------------------------
(* Dates: <<year, month, day>> *)

IsLeap(y) == (y % 4 = 0 /\ y % 100 # 0) \/ y % 400 = 0

DaysInMonth(y, m) ==
    IF m = 2 THEN (IF IsLeap(y) THEN 29 ELSE 28)
    ELSE IF m \in {4, 6, 9, 11} THEN 30 ELSE 31

NextDay(d) ==
    IF d[3] < DaysInMonth(d[1], d[2]) THEN <<d[1], d[2], d[3] + 1>>
    ELSE IF d[2] < 12 THEN <<d[1], d[2] + 1, 1>>
    ELSE <<d[1] + 1, 1, 1>>

\* strftime('%Y%m%d').astype(int); it orders dates as the calendar does
DateKey(d) == d[1] * 10000 + d[2] * 100 + d[3]

DateLeq(a, b) == DateKey(a) <= DateKey(b)

MonthName(m) ==
    <<"January", "February", "March", "April", "May", "June", "July", "August",
      "September", "October", "November", "December">>[m]

Quarter(m) == <<"Q1", "Q2", "Q3", "Q4">>[((m - 1) \div 3) + 1]

---------------------------------------------------------------------------
(* pandas *)

\* a merge that pairs every left row with every right row
merge_cross(left, right, on) ==
    Concat([i \in 1..Len(left) |-> [j \in 1..Len(right) |-> left[i] @@ right[j]]])

\* pd.merge(left, right, on=on): the inner join; one output row per matching
\* pair, in the order of the left rows; a left row with no match yields none
merge(left, right, on) ==
    Concat([i \in 1..Len(left) |->
        LET m == SelectSeq(right, LAMBDA r : r[on] = left[i][on])
        IN [j \in 1..Len(m) |-> left[i] @@ m[j]]])

\* the group-by columns of df_monthly
GroupKey(r) == <<r.year, r.month, r.month_name, r.line_name, r.region_name>>

KeyRank(k) == <<k[1], k[2], NameRank(k[3]), NameRank(k[4]), NameRank(k[5])>>

RECURSIVE LexLess(_, _, _)
LexLess(a, b, i) ==
    IF i > Len(a) THEN FALSE
    ELSE IF a[i] # b[i] THEN a[i] < b[i]
    ELSE LexLess(a, b, i + 1)

RECURSIVE SortedTuples(_)
\* a set of integer tuples as a sequence, ascending
SortedTuples(S) ==
    IF S = {} THEN <<>>
    ELSE LET m == CHOOSE x \in S : \A y \in S \ {x} : LexLess(x, y, 1)
         IN <<m>> \o SortedTuples(S \ {m})

\* the group keys in S, ascending as pandas sorts them
SortedKeys(S) ==
    LET t == SortedTuples({KeyRank(k) : k \in S})
    IN [i \in 1..Len(t) |-> CHOOSE k \in S : KeyRank(k) = t[i]]

\* the strings in S, ascending
SortedStrings(S) ==
    LET t == SortedTuples({<<NameRank(x)>> : x \in S})
    IN [i \in 1..Len(t) |-> SortedNames[t[i][1]]]

\* a group-by on the month alone: one row per (year, month) that occurs
groupby_month_sum(rows) ==
    LET keys == SortedTuples({<<rows[i].year, rows[i].month>> : i \in 1..Len(rows)})
    IN [g \in 1..Len(keys) |->
        LET k == keys[g]
            grp == SelectSeq(rows, LAMBDA r : <<r.year, r.month>> = k)
        IN [year |-> k[1], month |-> k[2], month_name |-> grp[1].month_name,
            line_name |-> grp[1].line_name, region_name |-> grp[1].region_name,
            earned_premium |-> ColSum(grp, "earned_premium"),
            incurred_loss |-> ColSum(grp, "incurred_loss"),
            developed_loss |-> ColSum(grp, "developed_loss")]]

\* df.groupby([...]).agg({...: 'sum'}).reset_index(): one row per key that
\* occurs, keys ascending, each money column summed over the key's rows
groupby_sum(rows) ==
    LET keys == SortedKeys({GroupKey(rows[i]) : i \in 1..Len(rows)})
    IN [g \in 1..Len(keys) |->
        LET k == keys[g]
            grp == SelectSeq(rows, LAMBDA r : GroupKey(r) = k)
        IN [year |-> k[1], month |-> k[2], month_name |-> k[3],
            line_name |-> k[4], region_name |-> k[5],
            earned_premium |-> ColSum(grp, "earned_premium"),
            incurred_loss |-> ColSum(grp, "incurred_loss"),
            developed_loss |-> ColSum(grp, "developed_loss")]]

\* app.py 35-40: month_start_date and the two ratio columns, row by row
with_ratios(rows) ==
    [i \in 1..Len(rows) |->
        rows[i] @@
        [month_start_date |-> <<rows[i].year, rows[i].month, 1>>,
         reported_loss_ratio |-> FDiv(rows[i].incurred_loss, rows[i].earned_premium),
         developed_loss_ratio |-> FDiv(rows[i].developed_loss, rows[i].earned_premium)]]

\* sort_values('average_loss_ratio', ascending=False) with the default
\* kind='quicksort', which is not a stable sort: rows with equal values come
\* out in their incoming order on a build whose quicksort happens to be
\* stable for the input, and in another order (here: reversed) otherwise
sort_values_desc(rows, stable) ==
    LET n == Len(rows)
        v(i) == rows[i].average_loss_ratio
        before(i) == {j \in 1..n :
                        \/ FGreater(v(j), v(i))
                        \/ v(j) = v(i) /\ (IF stable THEN j < i ELSE j > i)}
    IN [p \in 1..n |-> rows[CHOOSE i \in 1..n : Cardinality(before(i)) = p - 1]]

---------------------------------------------------------------------------
(* app.py, module level *)

FileNames == {"fact_financials", "dim_date", "dim_business_line", "dim_region"}

\* app.py 11-18: the four read_csv calls; a missing file ends the process
LoadData ==
    /\ app_pc = "start"
    /\ IF \E f \in FileNames : ~files[f].exists
       THEN /\ app_pc' = "exited"
            /\ UNCHANGED <<fact_financials, dim_date, dim_business_line, dim_region>>
       ELSE /\ app_pc' = "loaded"
            /\ fact_financials' = files.fact_financials.rows
            /\ dim_date' = files.dim_date.rows
            /\ dim_business_line' = files.dim_business_line.rows
            /\ dim_region' = files.dim_region.rows
    /\ UNCHANGED <<df, df_monthly, files, quicksort_stable>>
    /\ UNCHANGED <<gen_vars, query_vars, ref_vars>>

\* app.py 20-26: the three merges
MergeTables ==
    /\ app_pc = "loaded"
    /\ df' = merge(merge(merge(fact_financials, dim_date, "date_key"),
                         dim_business_line, "business_line_key"),
                   dim_region, "region_key")
    /\ app_pc' = "merged"
    /\ UNCHANGED <<fact_financials, dim_date, dim_business_line, dim_region, df_monthly>>
    /\ UNCHANGED <<files, quicksort_stable, gen_vars, query_vars, ref_vars>>

\* app.py 28-40: the monthly group-by, month_start_date, the two ratios
AggregateMonthly ==
    /\ app_pc = "merged"
    /\ df_monthly' = with_ratios(groupby_sum(df))
    /\ app_pc' = "serving"
    /\ UNCHANGED <<fact_financials, dim_date, dim_business_line, dim_region, df>>
    /\ UNCHANGED <<files, quicksort_stable, gen_vars, query_vars, ref_vars>>

---------------------------------------------------------------------------
(* app.py, update_dashboard *)

\* app.py 171-176
filtered_df(monthly, selected_lines, selected_regions, start_date, end_date) ==
    SelectSeq(monthly, LAMBDA r :
        /\ r.line_name \in selected_lines
        /\ r.region_name \in selected_regions
        /\ DateLeq(start_date, r.month_start_date)
        /\ DateLeq(r.month_start_date, end_date))

\* app.py 179-184
kpis(filtered) ==
    IF filtered # <<>>
    THEN LET overall_reported_lr ==
                 FDiv(ColSum(filtered, "incurred_loss"), ColSum(filtered, "earned_premium"))
             overall_developed_lr ==
                 FDiv(ColSum(filtered, "developed_loss"), ColSum(filtered, "earned_premium"))
         IN [overall_reported_lr |-> overall_reported_lr,
             overall_developed_lr |-> overall_developed_lr,
             development_impact |-> FSub(overall_developed_lr, overall_reported_lr)]
    ELSE [overall_reported_lr |-> Zero, overall_developed_lr |-> Zero,
          development_impact |-> Zero]

\* app.py 207-210
loss_col(loss_ratio_type) ==
    IF loss_ratio_type = "reported_loss_ratio" THEN "incurred_loss" ELSE "developed_loss"

\* app.py 212, on a non-empty frame: groupby('line_name') (groups ascending
\* by name), the guarded ratio per group, then the descending sort
comparison_df(filtered, loss_ratio_type, stable) ==
    LET names == SortedStrings({filtered[i].line_name : i \in 1..Len(filtered)})
        avg(name) ==
            LET x == SelectSeq(filtered, LAMBDA r : r.line_name = name)
            IN IF ColSum(x, "earned_premium") # 0
               THEN FDiv(ColSum(x, loss_col(loss_ratio_type)), ColSum(x, "earned_premium"))
               ELSE Zero
    IN sort_values_desc([i \in 1..Len(names) |->
                            [line_name |-> names[i], average_loss_ratio |-> avg(names[i])]],
                        stable)

TableColumns ==
    {"month_start_date", "line_name", "region_name", "earned_premium", "incurred_loss",
     "developed_loss", "reported_loss_ratio", "developed_loss_ratio"}

\* app.py 218: the columns of the data table
table_df(filtered) == [i \in 1..Len(filtered) |-> [c \in TableColumns |-> filtered[i][c]]]

\* What the callback hands back.  On an empty filtered frame
\* groupby(...).apply(...) calls the lambda for no group and returns an empty
\* DataFrame, not a Series: DataFrame.rename('average_loss_ratio') raises
\* TypeError (and where it does not, the frame has no 'average_loss_ratio'
\* column and sort_values raises KeyError).  The callback ends at line 212
\* with the exception and returns nothing.
callback_result(monthly, selected_lines, selected_regions, start_date, end_date, loss_ratio_type, stable) ==
    LET filtered == filtered_df(monthly, selected_lines, selected_regions,
                                start_date, end_date)
    IN IF filtered = <<>>
       THEN [status |-> "exception"]
       ELSE [status |-> "ok",
             kpi |-> kpis(filtered),
             comparison |-> comparison_df(filtered, loss_ratio_type, stable),
             table |-> table_df(filtered)]

\* update_dashboard with the filtered frame bound to the global name
update_dashboard_rebinding(selected_lines, selected_regions, start_date, end_date, loss_ratio_type) ==
    /\ app_pc = "serving"
    /\ request' = [status |-> "sent", selected_lines |-> selected_lines,
                   selected_regions |-> selected_regions,
                   start_date |-> start_date, end_date |-> end_date,
                   loss_ratio_type |-> loss_ratio_type]
    /\ response' = callback_result(df_monthly, selected_lines, selected_regions,
                                   start_date, end_date, loss_ratio_type, quicksort_stable)
    /\ df_monthly' = filtered_df(df_monthly, selected_lines, selected_regions,
                                 start_date, end_date)
    /\ UNCHANGED <<fact_financials, dim_date, dim_business_line, dim_region, df>>
    /\ UNCHANGED <<app_pc, files, quicksort_stable, gen_vars, ref_vars>>

\* app.py 169-228: the callback reads df_monthly and works on copies of the
\* rows it selects (.copy(), lines 176 and 218); it assigns to no global
update_dashboard(selected_lines, selected_regions, start_date, end_date, loss_ratio_type) ==
    /\ app_pc = "serving"
    /\ request' = [status |-> "sent", selected_lines |-> selected_lines,
                   selected_regions |-> selected_regions,
                   start_date |-> start_date, end_date |-> end_date,
                   loss_ratio_type |-> loss_ratio_type]
    /\ response' = callback_result(df_monthly, selected_lines, selected_regions,
                                   start_date, end_date, loss_ratio_type, quicksort_stable)
    /\ UNCHANGED <<fact_financials, dim_date, dim_business_line, dim_region, df, df_monthly>>
    /\ UNCHANGED <<app_pc, files, quicksort_stable, gen_vars, ref_vars>>

---------------------------------------------------------------------------
(* create_data.py *)

\* create_data.py 6-14, as written in the source
START_DATE == <<2022, 1, 1>>
END_DATE == <<2025, 8, 25>>
BUSINESS_LINES ==
    <<[name |-> "Commercial Auto", params |-> [base_lr |-> 650, dev_factor |-> 1150]],
      [name |-> "General Liability", params |-> [base_lr |-> 750, dev_factor |-> 1300]],
      [name |-> "Workers Compensation", params |-> [base_lr |-> 550, dev_factor |-> 1100]],
      [name |-> "Commercial Property", params |-> [base_lr |-> 450, dev_factor |-> 1050]]>>
REGIONS == <<"Northeast", "Southeast", "Midwest", "West">>

\* np.random.seed(42)
Seed == 42

\* days from 0001-01-01, as datetime subtraction counts them
Ordinal(d) ==
    LET y == d[1] - 1
    IN 365 * y + (y \div 4) - (y \div 100) + (y \div 400)
       + <<0, 31, 59, 90, 120, 151, 181, 212, 243, 273, 304, 334>>[d[2]]
       + (IF d[2] > 2 /\ IsLeap(d[1]) THEN 1 ELSE 0)
       + d[3]

RECURSIVE DatesFrom(_, _)
\* the n consecutive days that start at `start`
DatesFrom(start, n) ==
    IF n <= 0 THEN <<>>
    ELSE IF n = 1 THEN <<start>>
    ELSE LET h == n \div 2
             first == DatesFrom(start, h)
         IN first \o DatesFrom(NextDay(first[h]), n - h)

\* pd.date_range(start, end, freq='D'): every day of [start, end]; empty,
\* with no error, when start is after end
date_range(start, end) == DatesFrom(start, Ordinal(end) - Ordinal(start) + 1)

\* create_data.py 23-30
dim_date_frame(dates) ==
    [i \in 1..Len(dates) |->
        [date_key |-> DateKey(dates[i]), full_date |-> dates[i], year |-> dates[i][1],
         quarter |-> Quarter(dates[i][2]), month |-> dates[i][2],
         month_name |-> MonthName(dates[i][2])]]

\* create_data.py 36-39
dim_business_line_frame(lines) ==
    [i \in 1..Len(lines) |-> [business_line_key |-> i, line_name |-> lines[i].name]]

\* create_data.py 45-48
dim_region_frame(regions) ==
    [i \in 1..Len(regions) |-> [region_key |-> i, region_name |-> regions[i]]]

\* pd.MultiIndex.from_product([a, b, c]).to_frame(index=False): every
\* combination once, the last level varying fastest
from_product(a, b, c) ==
    [n \in 1..(Len(a) * Len(b) * Len(c)) |->
        [date_key |-> a[((n - 1) \div (Len(b) * Len(c))) + 1],
         business_line_key |-> b[(((n - 1) \div Len(c)) % Len(b)) + 1],
         region_key |-> c[((n - 1) % Len(c)) + 1]]]

Column(rows, col) == [i \in 1..Len(rows) |-> rows[i][col]]

\* The k-th draw after np.random.seed(Seed): a fixed stream, the same on
\* every run.  The values stand in for numpy's; only their ranges are kept.
Rand(k) == ((Seed + k) * 7919) % 10007

\* np.random.uniform(5000, 15000): cents in [500000, 1500000]
uniform(k) == 500000 + ((Rand(k) * 100) % 1000001)

\* np.random.normal(1, sigma), in thousandths, within three sigma
normal(k, sigma) == 1000 + (Rand(k) % (6 * sigma + 1)) - 3 * sigma

\* x times a factor given in thousandths
Scale(x, permille) == ((x \div 10) * permille) \div 100

\* 1 + sin(month * 2 pi / 12) * 0.1, in thousandths
seasonal_factor(month) ==
    <<1050, 1087, 1100, 1087, 1050, 1000, 950, 913, 900, 913, 950, 1000>>[month]

\* x * (1 + days / 1000 * 0.05)
Trend(x, days) == x + ((x \div 100) * days) \div 200

RECURSIVE MinOrdinal(_, _, _)
\* df_merged['full_date'].min(), as a day number, over rows lo..hi
MinOrdinal(rows, lo, hi) ==
    IF lo = hi THEN Ordinal(rows[lo].full_date)
    ELSE LET mid == (lo + hi) \div 2
             a == MinOrdinal(rows, lo, mid)
             b == MinOrdinal(rows, mid + 1, hi)
         IN IF a <= b THEN a ELSE b

\* BUSINESS_LINES[x]
LineParams(lines, name) == (CHOOSE l \in Range(lines) : l.name = name).params

GenFrames == [dim_date |-> <<>>, dim_business_line |-> <<>>, dim_region |-> <<>>,
              df_keys |-> <<>>, df_merged |-> <<>>]

gen_others == <<app_pc, fact_financials, dim_date, dim_business_line, dim_region,
                df, df_monthly, quicksort_stable, request, response,
                ref_request, ref_response>>

\* create_data.py 20-32
CreateDimDate ==
    /\ gen_pc = "dim_date"
    /\ LET frame == dim_date_frame(date_range(cfg.START_DATE, cfg.END_DATE))
       IN /\ gen' = [gen EXCEPT !.dim_date = frame]
          /\ files' = [files EXCEPT !.dim_date = File(frame)]
    /\ gen_pc' = "dim_business_line"
    /\ UNCHANGED <<cfg, gen_others>>

\* create_data.py 34-41
CreateDimBusinessLine ==
    /\ gen_pc = "dim_business_line"
    /\ LET frame == dim_business_line_frame(cfg.BUSINESS_LINES)
       IN /\ gen' = [gen EXCEPT !.dim_business_line = frame]
          /\ files' = [files EXCEPT !.dim_business_line = File(frame)]
    /\ gen_pc' = "dim_region"
    /\ UNCHANGED <<cfg, gen_others>>

\* create_data.py 43-50
CreateDimRegion ==
    /\ gen_pc = "dim_region"
    /\ LET frame == dim_region_frame(cfg.REGIONS)
       IN /\ gen' = [gen EXCEPT !.dim_region = frame]
          /\ files' = [files EXCEPT !.dim_region = File(frame)]
    /\ gen_pc' = "df_keys"
    /\ UNCHANGED <<cfg, gen_others>>

\* create_data.py 56-69
CreateKeys ==
    /\ gen_pc = "df_keys"
    /\ LET keys == from_product(Column(gen.dim_date, "date_key"),
                                Column(gen.dim_business_line, "business_line_key"),
                                Column(gen.dim_region, "region_key"))
       IN gen' = [gen EXCEPT !.df_keys =
                    [i \in 1..Len(keys) |-> keys[i] @@ [earned_premium |-> uniform(i)]]]
    /\ gen_pc' = "df_merged"
    /\ UNCHANGED <<cfg, files, gen_others>>

\* create_data.py 71-73
MergeDimensions ==
    /\ gen_pc = "df_merged"
    /\ gen' = [gen EXCEPT !.df_merged =
                 merge(merge(gen.df_keys, gen.dim_business_line, "business_line_key"),
                       gen.dim_date, "date_key")]
    /\ gen_pc' = "incurred_loss"
    /\ UNCHANGED <<cfg, files, gen_others>>

\* create_data.py 75-81; the lambda of line 76 raises KeyError on the first
\* row whose line has no 'base_lr'
ComputeIncurredLoss ==
    /\ gen_pc = "incurred_loss"
    /\ LET m == gen.df_merged
           num_records == Len(gen.df_keys)
           first_day == MinOrdinal(m, 1, Len(m))
       IN IF \E i \in 1..Len(m) :
                 "base_lr" \notin DOMAIN LineParams(cfg.BUSINESS_LINES, m[i].line_name)
          THEN /\ gen_pc' = "KeyError"
               /\ UNCHANGED gen
          ELSE /\ gen_pc' = "developed_loss"
               /\ gen' = [gen EXCEPT !.df_merged =
                    [i \in 1..Len(m) |-> m[i] @@
                        [incurred_loss |->
                            Trend(Scale(Scale(Scale(m[i].earned_premium,
                                    LineParams(cfg.BUSINESS_LINES, m[i].line_name).base_lr),
                                    seasonal_factor(m[i].month)),
                                    normal(num_records + i, 50)),
                                  Ordinal(m[i].full_date) - first_day)]]]
    /\ UNCHANGED <<cfg, files, gen_others>>

\* create_data.py 83-89; the lambda of line 86 raises KeyError likewise
ComputeDevelopedLoss ==
    /\ gen_pc = "developed_loss"
    /\ LET m == gen.df_merged
           num_records == Len(gen.df_keys)
       IN IF \E i \in 1..Len(m) :
                 "dev_factor" \notin DOMAIN LineParams(cfg.BUSINESS_LINES, m[i].line_name)
          THEN /\ gen_pc' = "KeyError"
               /\ UNCHANGED gen
          ELSE /\ gen_pc' = "fact_financials"
               /\ gen' = [gen EXCEPT !.df_merged =
                    [i \in 1..Len(m) |-> m[i] @@
                        [developed_loss |->
                            Scale(Scale(m[i].incurred_loss,
                                    LineParams(cfg.BUSINESS_LINES, m[i].line_name).dev_factor),
                                  normal(2 * num_records + i, 20))]]]
    /\ UNCHANGED <<cfg, files, gen_others>>

FactColumns == {"date_key", "business_line_key", "region_key", "earned_premium",
                "incurred_loss", "developed_loss"}

\* create_data.py 92-98
WriteFact ==
    /\ gen_pc = "fact_financials"
    /\ files' = [files EXCEPT !.fact_financials =
                    File([i \in 1..Len(gen.df_merged) |->
                            [c \in FactColumns |-> gen.df_merged[i][c]]])]
    /\ gen_pc' = "complete"
    /\ UNCHANGED <<cfg, gen, gen_others>>

---------------------------------------------------------------------------
(* The callback's inputs *)

LossRatioTypes == {"reported_loss_ratio", "developed_loss_ratio"}

\* first days of months, as the date picker hands them over
FilterDates == {<<2022, 1, 1>>, <<2022, 2, 1>>}

\* app.py 99, 103: the dropdowns offer the names that occur in df_monthly,
\* and hand over any subset of them
LineChoices == SUBSET {df_monthly[i].line_name : i \in 1..Len(df_monthly)}
RegionChoices == SUBSET {df_monthly[i].region_name : i \in 1..Len(df_monthly)}

\* a caller keeps the response it just got, to compare later ones with
Remember ==
    /\ response # None
    /\ ref_request = None
    /\ ref_request' = request
    /\ ref_response' = response
    /\ UNCHANGED <<app_pc, fact_financials, dim_date, dim_business_line, dim_region,
                   df, df_monthly, files, quicksort_stable, gen_vars, query_vars>>

Query ==
    \E selected_lines \in LineChoices, selected_regions \in RegionChoices,
       start_date \in FilterDates, end_date \in FilterDates,
       loss_ratio_type \in LossRatioTypes :
        update_dashboard(selected_lines, selected_regions, start_date, end_date,
                         loss_ratio_type)

---------------------------------------------------------------------------
(* The tables app.py may find on disk *)

Prefix(s, n) == SubSeq(s, 1, n)

\* the dimension tables create_data.py writes for two days across a month
\* end, two business lines and one region
AppDimDate == dim_date_frame(date_range(<<2022, 1, 31>>, <<2022, 2, 1>>))
AppDimBusinessLine == dim_business_line_frame(Prefix(BUSINESS_LINES, 2))
AppDimRegion == dim_region_frame(Prefix(REGIONS, 1))

\* (earned_premium, incurred_loss, developed_loss) in cents
Money == {<<0, 0, 0>>, <<0, 500, 600>>, <<1000, 500, 600>>, <<2000, 1000, 1200>>}

FactRow(date_key, business_line_key, region_key, money) ==
    [date_key |-> date_key, business_line_key |-> business_line_key,
     region_key |-> region_key, earned_premium |-> money[1],
     incurred_loss |-> money[2], developed_loss |-> money[3]]

\* a key no dimension row has
UnknownDateKey == DateKey(<<2023, 1, 1>>)
UnknownLineKey == Len(AppDimBusinessLine) + 1
UnknownRegionKey == Len(AppDimRegion) + 1

\* fact rows whose keys are all in the dimension tables, and rows with one
\* key that is in none
FactRows ==
    {FactRow(d, b, r, m) :
        d \in {AppDimDate[i].date_key : i \in 1..Len(AppDimDate)},
        b \in 1..Len(AppDimBusinessLine),
        r \in 1..Len(AppDimRegion),
        m \in Money}
    \cup {FactRow(UnknownDateKey, 1, 1, <<1000, 500, 600>>),
          FactRow(AppDimDate[1].date_key, UnknownLineKey, 1, <<1000, 500, 600>>),
          FactRow(AppDimDate[1].date_key, 1, UnknownRegionKey, <<1000, 500, 600>>)}

\* fact rows a caller's queries are compared on: a line with losses and no
\* premium in one month, a line with premium and no losses in the next (the
\* two lines then compare equal, at 0)
QueryFactRows ==
    {FactRow(AppDimDate[1].date_key, 1, 1, <<0, 500, 600>>),
     FactRow(AppDimDate[2].date_key, 2, 1, <<1000, 0, 0>>)}

InitWith(fact_tables) ==
    /\ cfg = [START_DATE |-> START_DATE, END_DATE |-> END_DATE,
              BUSINESS_LINES |-> BUSINESS_LINES, REGIONS |-> REGIONS]
    /\ gen_pc = "off"
    /\ gen = GenFrames
    /\ \E fact \in fact_tables :
         files = [fact_financials |-> File(fact), dim_date |-> File(AppDimDate),
                  dim_business_line |-> File(AppDimBusinessLine),
                  dim_region |-> File(AppDimRegion)]
    /\ app_pc = "start"
    /\ fact_financials = <<>> /\ dim_date = <<>> /\ dim_business_line = <<>>
    /\ dim_region = <<>> /\ df = <<>> /\ df_monthly = <<>>
    /\ quicksort_stable \in BOOLEAN
    /\ request = None /\ response = None
    /\ ref_request = None /\ ref_response = None

InitApp == InitWith(SeqsUpTo(FactRows, MaxFactRows))

InitQuery == InitWith(SeqsUpTo(QueryFactRows, MaxFactRows))

NextApp == LoadData \/ MergeTables \/ AggregateMonthly \/ Query

NextQuery == NextApp \/ Remember

\* app.py on any fact table
SpecApp == InitApp /\ [][NextApp]_vars

\* app.py serving a caller that compares responses
SpecQuery == InitQuery /\ [][NextQuery]_vars

---------------------------------------------------------------------------
(* The configurations create_data.py is run with *)

\* a business line's parameters as configured, or with one of them left out
ParamVariants(line) ==
    {line,
     [name |-> line.name, params |-> [dev_factor |-> line.params.dev_factor]],
     [name |-> line.name, params |-> [base_lr |-> line.params.base_lr]]}

\* the first n configured lines, each in every variant
LineConfigs(n) ==
    {ls \in [1..n -> UNION {ParamVariants(BUSINESS_LINES[i]) : i \in 1..n}] :
        \A i \in 1..n : ls[i].name = BUSINESS_LINES[i].name}

\* first days of the date ranges tried: before a month end, before a leap day
StartDates == {<<2022, 1, 31>>, <<2024, 2, 28>>}

\* ranges of 1..MaxDays days, and the inverted range that ends the day
\* before it starts
DateRanges ==
    {<<s, DatesFrom(s, n)[n]>> : s \in StartDates, n \in 1..MaxDays}
    \cup {<<NextDay(s), s>> : s \in StartDates}

\* one full calendar year, two business lines, one region, the parameters
\* of the source; a common year and a leap year
YearConfig(y) ==
    [START_DATE |-> <<y, 1, 1>>, END_DATE |-> <<y, 12, 31>>,
     BUSINESS_LINES |-> Prefix(BUSINESS_LINES, 2), REGIONS |-> Prefix(REGIONS, 1)]

YearConfigs == {YearConfig(y) : y \in {2022, 2024}}

GenConfigs ==
    {[START_DATE |-> r[1], END_DATE |-> r[2], BUSINESS_LINES |-> ls, REGIONS |-> Prefix(REGIONS, k)] :
        r \in DateRanges,
        ls \in UNION {LineConfigs(n) : n \in 0..MaxLines},
        k \in 0..MaxRegions}
    \cup YearConfigs

InitGen ==
    /\ cfg \in GenConfigs
    /\ gen_pc = "dim_date"
    /\ gen = GenFrames
    /\ files = [f \in FileNames |-> Absent]
    /\ app_pc = "start"
    /\ fact_financials = <<>> /\ dim_date = <<>> /\ dim_business_line = <<>>
    /\ dim_region = <<>> /\ df = <<>> /\ df_monthly = <<>>
    /\ quicksort_stable = TRUE
    /\ request = None /\ response = None
    /\ ref_request = None /\ ref_response = None

NextGen ==
    \/ CreateDimDate \/ CreateDimBusinessLine \/ CreateDimRegion \/ CreateKeys
    \/ MergeDimensions \/ ComputeIncurredLoss \/ ComputeDevelopedLoss \/ WriteFact
    \/ LoadData \/ MergeTables \/ AggregateMonthly

\* create_data.py, and app.py started at any moment of it
SpecGen == InitGen /\ [][NextGen]_vars

---------------------------------------------------------------------------
(* The claims *)

Sent == request.status = "sent"

\* the rows the last request selects
Selection ==
    filtered_df(df_monthly, request.selected_lines, request.selected_regions,
                request.start_date, request.end_date)

KpisAllZero(r) ==
    /\ r.kpi.overall_reported_lr = Zero
    /\ r.kpi.overall_developed_lr = Zero
    /\ r.kpi.development_impact = Zero

\* C1: a query whose selection is not empty and has a total earned premium
\* of zero returns, without failing, the three KPIs equal to 0.
C1_ZeroPremiumKpisAreZero ==
    (Sent /\ Selection # <<>> /\ ColSum(Selection, "earned_premium") = 0)
        => (response.status = "ok" /\ KpisAllZero(response))

\* C2: every row of df_monthly whose earned_premium is 0 has both ratios
\* equal to 0.
C2_ZeroPremiumRatiosAreZero ==
    app_pc = "serving" =>
        \A i \in 1..Len(df_monthly) :
            df_monthly[i].earned_premium = 0 =>
                /\ df_monthly[i].reported_loss_ratio = Zero
                /\ df_monthly[i].developed_loss_ratio = Zero

\* a fact row one of whose keys is in no row of its dimension table
Unmatched(row) ==
    \/ \A i \in 1..Len(dim_date) : dim_date[i].date_key # row.date_key
    \/ \A i \in 1..Len(dim_business_line) :
            dim_business_line[i].business_line_key # row.business_line_key
    \/ \A i \in 1..Len(dim_region) : dim_region[i].region_key # row.region_key

\* C3: with a fact row that matches no dimension row the join fails: the
\* program never gets past it to a joined table.
C3_UnmatchedRowIsFatal ==
    (\E i \in 1..Len(fact_financials) : Unmatched(fact_financials[i]))
        => app_pc \notin {"merged", "serving"}

\* C4: the earned premium summed over df_monthly is the earned premium
\* summed over the fact table.
C4_PremiumTotalPreserved ==
    app_pc = "serving" =>
        ColSum(df_monthly, "earned_premium") = ColSum(fact_financials, "earned_premium")

\* C5: a query that selects no business line returns, without an exception,
\* no rows and the three KPIs equal to 0.
C5_EmptySelectionIsZero ==
    (Sent /\ request.selected_lines = {})
        => (response.status = "ok" /\ response.table = <<>> /\ KpisAllZero(response))

\* the comparison the spec describes for the rows `sel`: the position of
\* each line, by average descending and then by name ascending
SpecAverage(sel, name) ==
    LET x == SelectSeq(sel, LAMBDA r : r.line_name = name)
        loss == IF request.loss_ratio_type = "reported_loss_ratio"
                THEN ColSum(x, "incurred_loss") ELSE ColSum(x, "developed_loss")
    IN IF ColSum(x, "earned_premium") = 0 THEN Zero
       ELSE FDiv(loss, ColSum(x, "earned_premium"))

ComparisonAsSpecified(c, sel) ==
    /\ {c[i].line_name : i \in 1..Len(c)} = {sel[i].line_name : i \in 1..Len(sel)}
    /\ \A i, j \in 1..Len(c) : c[i].line_name = c[j].line_name => i = j
    /\ \A i \in 1..Len(c) : c[i].average_loss_ratio = SpecAverage(sel, c[i].line_name)
    /\ \A i, j \in 1..Len(c) :
        i < j => \/ FGreater(c[i].average_loss_ratio, c[j].average_loss_ratio)
                 \/ /\ c[i].average_loss_ratio = c[j].average_loss_ratio
                    /\ NameRank(c[i].line_name) < NameRank(c[j].line_name)

C9_QueryIsPure ==
    [][app_pc = "serving" =>
        /\ app_frames' = app_frames
        /\ files' = files
        /\ (ref_request' # None /\ request' = ref_request') => response' = ref_response']_vars

\* C9's case: a caller holds an answered request and another request has
\* been answered since
C9_Witness ==
    /\ ref_request # None
    /\ ref_response.status = "ok"
    /\ request # ref_request
    /\ response.status = "ok"
    /\ response # ref_response

InvertedRange(c) == DateKey(c.START_DATE) > DateKey(c.END_DATE)

MissingParameter(c) ==
    \E i \in 1..Len(c.BUSINESS_LINES) :
        {"base_lr", "dev_factor"} \ DOMAIN c.BUSINESS_LINES[i].params # {}

\* C6: with an inverted date range or a line that lacks a parameter the
\* generator writes no table and does not complete.
C6_BadConfigWritesNothing ==
    (InvertedRange(cfg) \/ MissingParameter(cfg))
        => (gen_pc # "complete" /\ \A f \in FileNames : ~files[f].exists)

\* every key combination of the three dimension frames is in exactly one row
OneRowPerCombination(rows) ==
    /\ Len(rows) = Len(gen.dim_date) * Len(gen.dim_business_line) * Len(gen.dim_region)
    /\ \A d \in 1..Len(gen.dim_date), b \in 1..Len(gen.dim_business_line),
          r \in 1..Len(gen.dim_region) :
        Cardinality({i \in 1..Len(rows) :
            /\ rows[i].date_key = gen.dim_date[d].date_key
            /\ rows[i].business_line_key = gen.dim_business_line[b].business_line_key
            /\ rows[i].region_key = gen.dim_region[r].region_key}) = 1

\* C7: the key frame, the merged frame and the fact table written each hold
\* exactly one row per (date, line, region) combination.
C7_FactIsFullCrossProduct ==
    /\ gen_pc \in {"df_merged", "incurred_loss", "developed_loss", "fact_financials",
                   "complete", "KeyError"} => OneRowPerCombination(gen.df_keys)
    /\ gen_pc \in {"incurred_loss", "developed_loss", "fact_financials", "complete",
                   "KeyError"} => OneRowPerCombination(gen.df_merged)
    /\ files.fact_financials.exists => OneRowPerCombination(files.fact_financials.rows)

\* C7's case: a fact table written for several dates, lines and regions
C7_Witness ==
    /\ gen_pc = "complete"
    /\ Len(gen.dim_date) >= 2 /\ Len(gen.dim_business_line) >= 2 /\ Len(gen.dim_region) >= 2
    /\ Len(files.fact_financials.rows) >= 8

\* the generated dataset covers one calendar year, two lines, one region, and
\* app.py has built df_monthly from it
YearDatasetAggregated ==
    /\ cfg.START_DATE = <<cfg.START_DATE[1], 1, 1>>
    /\ cfg.END_DATE = <<cfg.START_DATE[1], 12, 31>>
    /\ Len(cfg.BUSINESS_LINES) = 2 /\ Len(cfg.REGIONS) = 1
    /\ gen_pc = "complete"
    /\ app_pc = "serving"

\* C8 as stated: df_monthly of the one-year, two-line, one-region dataset
\* has 12 rows.
C8_YearHasTwelveRows == YearDatasetAggregated => Len(df_monthly) = 12

\* C8 amended: it has 24 rows, one per month and business line.
C8_YearHasTwentyFourRows ==
    YearDatasetAggregated =>
        /\ Len(df_monthly) = 24
        /\ \A m \in 1..12, l \in 1..2 :
            Cardinality({i \in 1..Len(df_monthly) :
                /\ df_monthly[i].month = m
                /\ df_monthly[i].line_name = cfg.BUSINESS_LINES[l].name}) = 1

C8_Witness == YearDatasetAggregated /\ Len(fact_financials) >= 730

===========================================================================
